---- MODULE Spec2Model ----
(***************************************************************************)
(* Model of cc_textual/worktree.py: git worktree management.               *)
(*                                                                         *)
(* Strings are sequences of one-character strings, so that f-strings,      *)
(* str.strip, str.split, str.startswith, slicing and pathlib's Path are    *)
(* modelled by what they do to the characters.  The version-control tool   *)
(* is the environment: its state is the worktree registry, the branch set  *)
(* and the directories on disk, and each subprocess call of the source is  *)
(* an operator that renders git's output text from that state.             *)
(***************************************************************************)
EXTENDS Integers, Sequences, FiniteSets, TLC

\* ------------------------------------------------------------------------
\* Bounds
\* ------------------------------------------------------------------------
\* At most this many worktrees (main checkout included) exist at a time.
MaxWorktrees == 3

\* the most lines a stubbed listing command prints
MaxLines == 4

\* ------------------------------------------------------------------------
\* Python str operations
\* ------------------------------------------------------------------------
\* s.startswith(p)
StartsWith(s, p) == Len(s) >= Len(p) /\ SubSeq(s, 1, Len(p)) = p

\* s[n:]
SliceFrom(s, n) == SubSeq(s, n + 1, Len(s))

\* the characters str.strip() removes
IsSpace(c) == c \in {" ", "\n", "\t"}

\* s.strip(): from the first to the last character that is not whitespace
Strip(s) ==
    LET keep == {i \in 1..Len(s) : ~IsSpace(s[i])} IN
    IF keep = {} THEN <<>>
    ELSE SubSeq(s, CHOOSE i \in keep : \A k \in keep : i <= k,
                   CHOOSE j \in keep : \A k \in keep : k <= j)

\* s.split(sep) for a one-character separator: the pieces between
\* consecutive occurrences of sep
Split(s, sep) ==
    LET at == {i \in 1..Len(s) : s[i] = sep}
        n == Cardinality(at)
        nth(k) == CHOOSE i \in at : Cardinality({q \in at : q < i}) = k - 1
        from(k) == IF k = 1 THEN 1 ELSE nth(k - 1) + 1
        to(k) == IF k = n + 1 THEN Len(s) ELSE nth(k) - 1
    IN  [k \in 1..(n + 1) |-> SubSeq(s, from(k), to(k))]

RECURSIVE Join(_, _)
\* sep.join(parts)
Join(parts, sep) ==
    IF parts = <<>> THEN <<>>
    ELSE IF Len(parts) = 1 THEN parts[1]
    ELSE parts[1] \o sep \o Join(Tail(parts), sep)

\* ------------------------------------------------------------------------
\* pathlib.Path (POSIX flavour)
\* ------------------------------------------------------------------------
IsAbs(s) == Len(s) > 0 /\ s[1] = "/"

\* the components of a path: empty and "." components are dropped
Parts(s) == SelectSeq(Split(s, "/"), LAMBDA c : c # <<>> /\ c # <<".">>)

FromParts(abs, parts) ==
    IF abs THEN <<"/">> \o Join(parts, <<"/">>)
    ELSE IF parts = <<>> THEN <<".">>
    ELSE Join(parts, <<"/">>)

\* Path(s): the normalised text of the path
PathOf(s) == FromParts(IsAbs(s), Parts(s))

\* Path(s).name
Name(p) == LET ps == Parts(p) IN IF ps = <<>> THEN <<>> ELSE ps[Len(ps)]

\* Path(s).parent
Parent(p) ==
    LET ps == Parts(p) IN
    IF ps = <<>> THEN PathOf(p)
    ELSE FromParts(IsAbs(p), SubSeq(ps, 1, Len(ps) - 1))

\* p / s
Div(p, s) == IF IsAbs(s) THEN PathOf(s) ELSE PathOf(p \o <<"/">> \o s)

\* a is b or an ancestor directory of b
IsPathPrefix(a, b) ==
    LET pa == Parts(a)
        pb == Parts(b)
    IN  Len(pa) <= Len(pb) /\ SubSeq(pb, 1, Len(pa)) = pa

\* ------------------------------------------------------------------------
\* Text literals of the source and of git's output
\* ------------------------------------------------------------------------
\* "worktree " (9 characters)
S_worktree == <<"w", "o", "r", "k", "t", "r", "e", "e", " ">>

\* "branch refs/heads/" (18 characters)
S_branch == <<"b", "r", "a", "n", "c", "h", " ", "r", "e", "f", "s", "/", "h", "e", "a", "d", "s", "/">>

\* "HEAD "
S_head == <<"H", "E", "A", "D", " ">>

\* "detached"
S_detached == <<"d", "e", "t", "a", "c", "h", "e", "d">>

NL == <<"\n">>

\* the abbreviated commit id every worktree is at (the model makes no commits)
Sha == <<"c">>

\* ------------------------------------------------------------------------
\* The repository on disk
\* ------------------------------------------------------------------------
\* the main checkout /p/r (repository name "r") and its first branch "m"
MainPath == <<"/", "p", "/", "r">>
MainBranch == <<"m">>

\* a directory outside every worktree
Outside == <<"/", "o">>

\* a symbolic link /l -> /p/r-f
LinkPath == <<"/", "l">>
LinkTarget == <<"/", "p", "/", "r", "-", "f">>

\* feature names a caller may pass: a plain name, a name with a path
\* separator whose last component is the repository name, the empty name
FeatureNames == {<<"f">>, <<"x", "/", "r">>, <<>>}

VARIABLES
    worktrees,   \* git's worktree registry, main checkout first, in listing order
    branches,    \* the branch refs that exist
    dirs,        \* plain directories on disk besides the worktrees
    procCwd,     \* the current directory of the process
    last,        \* the call the caller has just made and what it returned
                 \* (NoCall once the caller has taken the result)
    created,     \* worktrees made by a successful start_worktree and not removed
    printed,     \* the lines a stubbed `git worktree list --porcelain` has printed
    calls,       \* the calls in progress when several callers run at once:
                 \* for each caller, how far its call has got and what it holds
    worktreePrompt,   \* the fields of a WorktreePrompt
    selectionPrompt,  \* the fields of a SelectionPrompt
    questionPrompt,   \* the fields of a QuestionPrompt
    focused,          \* the prompt that is mounted and has the keyboard focus
    scrollbar,        \* an AutoHideScroll: its CSS class and its running timers
    now               \* the time, in seconds

\* the state of the user interface
uiVars == <<worktreePrompt, selectionPrompt, questionPrompt, focused, scrollbar, now>>

vars == <<worktrees, branches, dirs, procCwd, last, created, printed, calls, uiVars>>

\* Path.resolve(): symbolic links replaced by their targets
Resolve(p) ==
    IF IsPathPrefix(LinkPath, p)
    THEN FromParts(TRUE, Parts(LinkTarget) \o SubSeq(Parts(p), Len(Parts(LinkPath)) + 1, Len(Parts(p))))
    ELSE PathOf(p)

\* Path.exists(): a worktree, a plain directory, or an ancestor of one
Exists(wts, ds, p) ==
    \/ \E i \in 1..Len(wts) : IsPathPrefix(p, wts[i].path)
    \/ \E d \in ds : IsPathPrefix(p, d)

\* the root of the worktree that contains directory cwd (<<>> when cwd is in none)
Toplevel(wts, cwd) ==
    LET inside == {i \in 1..Len(wts) : IsPathPrefix(wts[i].path, cwd)} IN
    IF inside = {} THEN <<>>
    ELSE wts[CHOOSE i \in inside :
               \A j \in inside : Len(Parts(wts[j].path)) <= Len(Parts(wts[i].path))].path

\* git exits nonzero when run outside a repository
GitOk(wts, cwd) == Toplevel(wts, cwd) # <<>>

\* stdout of `git rev-parse --show-toplevel`
GitRevParseShowToplevel(wts, cwd) == Toplevel(wts, cwd) \o NL

\* stdout of `git branch --show-current` (an empty line on a detached HEAD)
GitBranchShowCurrent(wts, cwd) ==
    LET top == Toplevel(wts, cwd)
        i == CHOOSE k \in 1..Len(wts) : wts[k].path = top
    IN  (IF wts[i].detached THEN <<>> ELSE wts[i].branch) \o NL

\* one stanza of `git worktree list --porcelain`
Stanza(w) ==
    S_worktree \o w.path \o NL
    \o S_head \o Sha \o NL
    \o (IF w.detached THEN S_detached ELSE S_branch \o w.branch) \o NL
    \o NL

RECURSIVE GitWorktreeListPorcelain(_)
\* stdout of `git worktree list --porcelain`
GitWorktreeListPorcelain(wts) ==
    IF wts = <<>> THEN <<>>
    ELSE Stanza(Head(wts)) \o GitWorktreeListPorcelain(Tail(wts))

\* ------------------------------------------------------------------------
\* worktree.py
\* ------------------------------------------------------------------------
\* get_repo_name(): the name of the directory `git rev-parse --show-toplevel`
\* prints for the process's current directory
get_repo_name(wts, cwd) == Name(PathOf(Strip(GitRevParseShowToplevel(wts, cwd))))

\* get_current_branch()
get_current_branch(wts, cwd) == Strip(GitBranchShowCurrent(wts, cwd))

\* the dataclass WorktreeInfo
WorktreeInfo(path, branch, is_main) ==
    [path |-> path, branch |-> branch, is_main |-> is_main]

\* `if current_path and current_branch`: both set (a Path is always true, the
\* empty branch name is false); None is <<>>, a value v is <<v>>
BothSet(current_path, current_branch) ==
    /\ current_path # <<>>
    /\ current_branch # <<>>
    /\ current_branch[1] # <<>>

\* mutant: the first record of the listing is taken to be the main worktree
EmitRecord_FirstIsMain(st, main_repo) ==
    IF BothSet(st.current_path, st.current_branch)
    THEN Append(st.out, WorktreeInfo(st.current_path[1], st.current_branch[1],
                                     st.out = <<>>))
    ELSE st.out

\* the record appended for a finished stanza; main_repo is get_repo_name()
EmitRecord(st, main_repo) ==
    IF BothSet(st.current_path, st.current_branch)
    THEN Append(st.out, WorktreeInfo(st.current_path[1], st.current_branch[1],
                                     Name(st.current_path[1]) = main_repo))
    ELSE st.out

\* mutant: the blank line after a stanza resets the path but not the branch
ParseLine_KeepsBranch(st, line, main_repo) ==
    IF StartsWith(line, S_worktree)
    THEN [st EXCEPT !.current_path = <<PathOf(SliceFrom(line, 9))>>]
    ELSE IF StartsWith(line, S_branch)
    THEN [st EXCEPT !.current_branch = <<SliceFrom(line, 18)>>]
    ELSE IF line = <<>>
    THEN [current_path |-> <<>>, current_branch |-> st.current_branch,
          out |-> EmitRecord(st, main_repo)]
    ELSE st

\* mutant: the blank line after a stanza resets the branch but not the path
ParseLine_KeepsPath(st, line, main_repo) ==
    IF StartsWith(line, S_worktree)
    THEN [st EXCEPT !.current_path = <<PathOf(SliceFrom(line, 9))>>]
    ELSE IF StartsWith(line, S_branch)
    THEN [st EXCEPT !.current_branch = <<SliceFrom(line, 18)>>]
    ELSE IF line = <<>>
    THEN [current_path |-> st.current_path, current_branch |-> <<>>,
          out |-> EmitRecord(st, main_repo)]
    ELSE st

\* one iteration of the loop over the lines of the listing
ParseLine(st, line, main_repo) ==
    IF StartsWith(line, S_worktree)
    THEN [st EXCEPT !.current_path = <<PathOf(SliceFrom(line, 9))>>]
    ELSE IF StartsWith(line, S_branch)
    THEN [st EXCEPT !.current_branch = <<SliceFrom(line, 18)>>]
    ELSE IF line = <<>>
    THEN [current_path |-> <<>>, current_branch |-> <<>>, out |-> EmitRecord(st, main_repo)]
    ELSE st

RECURSIVE ParseLines(_, _, _, _)
ParseLines(lines, i, st, main_repo) ==
    IF i > Len(lines) THEN st
    ELSE ParseLines(lines, i + 1, ParseLine(st, lines[i], main_repo), main_repo)

\* mutant: the stanza still open at the end of the input is dropped
ParseListing_NoLastEntry(stdout, main_repo) ==
    LET lines == Split(Strip(stdout), "\n")
        st0 == [current_path |-> <<>>, current_branch |-> <<>>, out |-> <<>>]
    IN  ParseLines(lines, 1, st0, main_repo).out

\* the body of list_worktrees() applied to the stdout of the listing command
ParseListing(stdout, main_repo) ==
    LET lines == Split(Strip(stdout), "\n")
        st0 == [current_path |-> <<>>, current_branch |-> <<>>, out |-> <<>>]
        st == ParseLines(lines, 1, st0, main_repo)
    IN  EmitRecord(st, main_repo)

\* list_worktrees() run in directory cwd (git succeeds there)
list_worktrees(wts, cwd) ==
    ParseListing(GitWorktreeListPorcelain(wts), get_repo_name(wts, cwd))

RECURSIVE FirstMain_Last(_, _)
\* mutant: the last record marked main is returned instead of the first
FirstMain_Last(listed, i) ==
    IF i > Len(listed) THEN <<>>
    ELSE IF FirstMain_Last(listed, i + 1) # <<>> THEN FirstMain_Last(listed, i + 1)
    ELSE IF listed[i].is_main THEN <<listed[i]>>
    ELSE <<>>

RECURSIVE FirstMain(_, _)
FirstMain(listed, i) ==
    IF i > Len(listed) THEN <<>>
    ELSE IF listed[i].is_main THEN <<listed[i]>>
    ELSE FirstMain(listed, i + 1)

\* get_main_worktree(): the first record marked main of a fresh listing,
\* <<>> for None
get_main_worktree(wts, cwd) == FirstMain(list_worktrees(wts, cwd), 1)

RECURSIVE FirstAt_Inside(_, _, _)
\* mutant: a directory inside a worktree matches the worktree's record
FirstAt_Inside(listed, cwd, i) ==
    IF i > Len(listed) THEN <<>>
    ELSE IF IsPathPrefix(Resolve(listed[i].path), cwd) THEN <<listed[i]>>
    ELSE FirstAt_Inside(listed, cwd, i + 1)

RECURSIVE FirstAt(_, _, _)
\* next((wt for wt in worktrees if wt.path.resolve() == cwd), None)
FirstAt(listed, cwd, i) ==
    IF i > Len(listed) THEN <<>>
    ELSE IF Resolve(listed[i].path) = cwd THEN <<listed[i]>>
    ELSE FirstAt(listed, cwd, i + 1)

\* ------------------------------------------------------------------------
\* `git worktree add -b <branch> <path> HEAD`
\* ------------------------------------------------------------------------
\* git check-ref-format: not empty, no space, no empty path component
ValidRef(b) ==
    /\ b # <<>>
    /\ \A i \in 1..Len(b) : ~IsSpace(b[i])
    /\ \A c \in {Split(b, "/")[k] : k \in 1..Len(Split(b, "/"))} : c # <<>>

\* refs/heads/a and refs/heads/a/b cannot both exist
RefConflict(brs, b) ==
    \E e \in brs : e # b /\ (IsPathPrefix(e, b) \/ IsPathPrefix(b, e))

\* git refuses a target path that exists and is not an empty directory
NonEmptyPath(wts, ds, p) ==
    \/ \E i \in 1..Len(wts) : IsPathPrefix(p, wts[i].path)
    \/ \E d \in ds : d # PathOf(p) /\ IsPathPrefix(p, d)

\* mutant: -B instead of -b, an existing branch is reused
GitWorktreeAdd_ReusesBranch(wts, brs, ds, b, p) ==
    LET refuse(why) == [rc |-> 255, stderr |-> <<why>>, worktrees |-> wts, branches |-> brs] IN
    IF ~ValidRef(b) THEN refuse("fatal: not a valid branch name")
    ELSE IF RefConflict(brs, b) THEN refuse("fatal: cannot lock ref")
    ELSE IF NonEmptyPath(wts, ds, p) THEN refuse("fatal: already exists")
    ELSE [rc |-> 0, stderr |-> <<>>,
          worktrees |-> Append(wts, [path |-> PathOf(p), branch |-> b, detached |-> FALSE]),
          branches |-> brs \cup {b}]

\* exit code, stderr and the registry and branch set the command leaves
GitWorktreeAdd(wts, brs, ds, b, p) ==
    LET refuse(why) == [rc |-> 255, stderr |-> <<why>>, worktrees |-> wts, branches |-> brs] IN
    IF ~ValidRef(b) THEN refuse("fatal: not a valid branch name")
    ELSE IF b \in brs THEN refuse("fatal: a branch named already exists")
    ELSE IF RefConflict(brs, b) THEN refuse("fatal: cannot lock ref")
    ELSE IF NonEmptyPath(wts, ds, p) THEN refuse("fatal: already exists")
    ELSE [rc |-> 0, stderr |-> <<>>,
          worktrees |-> Append(wts, [path |-> PathOf(p), branch |-> b, detached |-> FALSE]),
          branches |-> brs \cup {b}]

\* ------------------------------------------------------------------------
\* Results of the public operations
\* ------------------------------------------------------------------------
\* (success, message, payload): the message is its fixed text and the value
\* interpolated into it; the payload is <<>> for None and <<v>> for a value v
Result(ok, msg, detail, payload) ==
    [raised |-> FALSE, ok |-> ok, msg |-> msg, detail |-> detail, payload |-> payload]

\* subprocess.CalledProcessError leaves the operation uncaught
Raised == [raised |-> TRUE, ok |-> FALSE, msg |-> "CalledProcessError", detail |-> <<>>, payload |-> <<>>]

MsgDirExists == "Directory {worktree_dir} already exists"
MsgCreated == "Created worktree at {worktree_dir}"
MsgGitError == "Git error: {e.stderr}"
MsgNotInFeature == "Not in a feature worktree. Switch to a worktree first."
MsgNoMain == "Cannot find main worktree."
MsgReady == "Ready to finish worktree"

\* mutant: without a main worktree the operation gives up
start_worktree_NoFallback(wts, brs, ds, cwd, feature_name) ==
    LET same(res) == [res |-> res, worktrees |-> wts, branches |-> brs] IN
    IF ~GitOk(wts, cwd)
    THEN same(Result(FALSE, MsgGitError, <<"fatal: not a git repository">>, <<>>))
    ELSE
    LET repo_name == get_repo_name(wts, cwd)
        main_wt == get_main_worktree(wts, cwd)
        worktree_dir == Div(Parent(main_wt[1].path), repo_name \o <<"-">> \o feature_name)
    IN  IF main_wt = <<>>
        THEN same(Result(FALSE, MsgNoMain, <<>>, <<>>))
        ELSE IF Exists(wts, ds, worktree_dir)
        THEN same(Result(FALSE, MsgDirExists, worktree_dir, <<>>))
        ELSE LET run == GitWorktreeAdd(wts, brs, ds, feature_name, worktree_dir) IN
             IF run.rc # 0
             THEN same(Result(FALSE, MsgGitError, run.stderr, <<>>))
             ELSE [res |-> Result(TRUE, MsgCreated, worktree_dir, <<worktree_dir>>),
                   worktrees |-> run.worktrees, branches |-> run.branches]

\* start_worktree(feature_name) run in directory cwd: what it returns and
\* the registry and branch set it leaves
start_worktree(wts, brs, ds, cwd, feature_name) ==
    LET same(res) == [res |-> res, worktrees |-> wts, branches |-> brs] IN
    IF ~GitOk(wts, cwd)
    THEN same(Result(FALSE, MsgGitError, <<"fatal: not a git repository">>, <<>>))
    ELSE
    LET repo_name == get_repo_name(wts, cwd)
        base_branch == get_current_branch(wts, cwd)
        main_wt == get_main_worktree(wts, cwd)
        parent_dir == IF main_wt # <<>> THEN Parent(main_wt[1].path) ELSE Parent(cwd)
        worktree_dir == Div(parent_dir, repo_name \o <<"-">> \o feature_name)
    IN  IF Exists(wts, ds, worktree_dir)
        THEN same(Result(FALSE, MsgDirExists, worktree_dir, <<>>))
        ELSE LET run == GitWorktreeAdd(wts, brs, ds, feature_name, worktree_dir) IN
             IF run.rc # 0
             THEN same(Result(FALSE, MsgGitError, run.stderr, <<>>))
             ELSE [res |-> Result(TRUE, MsgCreated, worktree_dir, <<worktree_dir>>),
                   worktrees |-> run.worktrees, branches |-> run.branches]

\* the dict of a successful get_finish_worktree_info
FinishInfo(current_wt, main_wt) ==
    [branch_name |-> current_wt.branch,
     base_branch |-> main_wt.branch,
     worktree_dir |-> current_wt.path,
     main_dir |-> main_wt.path]

\* mutant: the missing main worktree is reported with the message of the
\* first check
get_finish_worktree_info_OneMessage(wts, pcwd, arg) ==
    LET cwd == Resolve(IF arg = <<>> THEN pcwd ELSE arg[1]) IN
    IF ~GitOk(wts, pcwd) THEN Raised
    ELSE
    LET listed == list_worktrees(wts, pcwd)
        current_wt == FirstAt(listed, cwd, 1)
    IN  IF current_wt = <<>> \/ current_wt[1].is_main
        THEN Result(FALSE, MsgNotInFeature, <<>>, <<>>)
        ELSE LET main_wt == get_main_worktree(wts, pcwd) IN
             IF main_wt = <<>>
             THEN Result(FALSE, MsgNotInFeature, <<>>, <<>>)
             ELSE Result(TRUE, MsgReady, <<>>, <<FinishInfo(current_wt[1], main_wt[1])>>)

\* mutant: a record marked main is accepted as the worktree to finish
get_finish_worktree_info_AcceptsMain(wts, pcwd, arg) ==
    LET cwd == Resolve(IF arg = <<>> THEN pcwd ELSE arg[1]) IN
    IF ~GitOk(wts, pcwd) THEN Raised
    ELSE
    LET listed == list_worktrees(wts, pcwd)
        current_wt == FirstAt(listed, cwd, 1)
    IN  IF current_wt = <<>>
        THEN Result(FALSE, MsgNotInFeature, <<>>, <<>>)
        ELSE LET main_wt == get_main_worktree(wts, pcwd) IN
             IF main_wt = <<>>
             THEN Result(FALSE, MsgNoMain, <<>>, <<>>)
             ELSE Result(TRUE, MsgReady, <<>>, <<FinishInfo(current_wt[1], main_wt[1])>>)

\* get_finish_worktree_info(cwd) run in directory pcwd; arg is <<>> for
\* cwd=None and <<p>> for a path p
get_finish_worktree_info(wts, pcwd, arg) ==
    LET cwd == Resolve(IF arg = <<>> THEN pcwd ELSE arg[1]) IN
    IF ~GitOk(wts, pcwd) THEN Raised
    ELSE
    LET listed == list_worktrees(wts, pcwd)
        current_wt == FirstAt(listed, cwd, 1)
    IN  IF current_wt = <<>> \/ current_wt[1].is_main
        THEN Result(FALSE, MsgNotInFeature, <<>>, <<>>)
        ELSE LET main_wt == get_main_worktree(wts, pcwd) IN
             IF main_wt = <<>>
             THEN Result(FALSE, MsgNoMain, <<>>, <<>>)
             ELSE Result(TRUE, MsgReady, <<>>, <<FinishInfo(current_wt[1], main_wt[1])>>)

\* ------------------------------------------------------------------------
\* cc_textual/widgets/prompts.py
\* ------------------------------------------------------------------------
\* the longest text typed into a prompt
MaxText == 2

\* a key event: its key name and the character it carries ("" for None)
Key(k, ch) == [key |-> k, character |-> ch]

\* the key events a prompt may receive
KeyEvents ==
    {Key("up", ""), Key("down", ""), Key("enter", "\r"), Key("escape", ""),
     Key("backspace", ""), Key("tab", "\t"), Key("a", "a"), Key("space", " "),
     Key("0", "0"), Key("1", "1"), Key("2", "2"), Key("3", "3")}

\* str.isdigit() of a key name
IsDigit(k) == k \in {"0", "1", "2", "3", "4", "5", "6", "7", "8", "9"}

\* int() of a key name that is a digit
IntOf(k) ==
    CASE k = "0" -> 0 [] k = "1" -> 1 [] k = "2" -> 2 [] k = "3" -> 3 [] k = "4" -> 4
      [] k = "5" -> 5 [] k = "6" -> 6 [] k = "7" -> 7 [] k = "8" -> 8 [] k = "9" -> 9

\* len(event.character or "") == 1 and event.character.isprintable()
IsPrintable(ch) == ch \in {"a", " ", "0", "1", "2", "3"}

\* len(event.character or "") == 1 and event.character.isalpha()
IsAlpha(ch) == ch \in {"a"}

\* the result None of a WorktreePrompt, and its (action, value) results
None == [action |-> "None", value |-> <<>>]
Action(action, value) == [action |-> action, value |-> value]

\* WorktreePrompt.__init__(worktrees): worktrees is a list of (path, branch)
WorktreePrompt(wts) ==
    [worktrees |-> wts, selected_idx |-> 0, result_event |-> FALSE,
     result_value |-> None, in_new_mode |-> FALSE, new_text |-> <<>>,
     waited |-> FALSE, returned |-> None]

\* WorktreePrompt._total_options()
WorktreePrompt_total_options(self) == Len(self.worktrees) + 1

\* WorktreePrompt._resolve(result)
WorktreePrompt_resolve(self, result) ==
    IF ~self.result_event
    THEN [self EXCEPT !.result_value = result, !.result_event = TRUE]
    ELSE self

\* WorktreePrompt._enter_new_mode()
WorktreePrompt_enter_new_mode(self) == [self EXCEPT !.in_new_mode = TRUE]

\* mutant: leaving new-name mode keeps the typed text
WorktreePrompt_exit_new_mode_KeepsText(self) == [self EXCEPT !.in_new_mode = FALSE]

\* WorktreePrompt._exit_new_mode()
WorktreePrompt_exit_new_mode(self) ==
    [self EXCEPT !.in_new_mode = FALSE, !.new_text = <<>>]

\* WorktreePrompt.on_key(event)
WorktreePrompt_on_key(self, event) ==
    IF self.in_new_mode
    THEN IF event.key = "escape" THEN WorktreePrompt_exit_new_mode(self)
         ELSE IF event.key = "enter"
         THEN IF Strip(self.new_text) # <<>>
              THEN WorktreePrompt_resolve(self, Action("new", Strip(self.new_text)))
              ELSE WorktreePrompt_exit_new_mode(self)
         ELSE IF event.key = "backspace"
         THEN [self EXCEPT !.new_text = SubSeq(self.new_text, 1, Len(self.new_text) - 1)]
         ELSE IF IsPrintable(event.character)
         THEN [self EXCEPT !.new_text = self.new_text \o <<event.character>>]
         ELSE self
    ELSE IF event.key = "up"
    THEN [self EXCEPT !.selected_idx =
              (self.selected_idx - 1) % WorktreePrompt_total_options(self)]
    ELSE IF event.key = "down"
    THEN [self EXCEPT !.selected_idx =
              (self.selected_idx + 1) % WorktreePrompt_total_options(self)]
    ELSE IF event.key = "enter"
    THEN IF self.selected_idx < Len(self.worktrees)
         THEN WorktreePrompt_resolve(self,
                  Action("switch", self.worktrees[self.selected_idx + 1][1]))
         ELSE WorktreePrompt_enter_new_mode(self)
    ELSE IF event.key = "escape" THEN WorktreePrompt_resolve(self, None)
    ELSE IF IsDigit(event.key)
    THEN LET idx == IntOf(event.key) - 1 IN
         IF 0 <= idx /\ idx < Len(self.worktrees)
         THEN WorktreePrompt_resolve(self, Action("switch", self.worktrees[idx + 1][1]))
         ELSE IF idx = Len(self.worktrees) THEN WorktreePrompt_enter_new_mode(self)
         ELSE self
    ELSE IF IsAlpha(event.character)
    THEN WorktreePrompt_enter_new_mode(
             [self EXCEPT !.selected_idx = Len(self.worktrees),
                          !.new_text = <<event.character>>])
    ELSE self

\* WorktreePrompt.wait(), once the event is set: the value it returns
WorktreePrompt_wait(self) ==
    [self EXCEPT !.waited = TRUE, !.returned = self.result_value]

\* SelectionPrompt.__init__(title, options): options is a list of
\* (value, label)
SelectionPrompt(options) ==
    [options |-> options, selected_idx |-> 0, result_event |-> FALSE,
     result_value |-> IF options # <<>> THEN options[1][1] ELSE "",
     waited |-> FALSE, returned |-> ""]

\* SelectionPrompt._resolve(result)
SelectionPrompt_resolve(self, result) ==
    IF ~self.result_event
    THEN [self EXCEPT !.result_value = result, !.result_event = TRUE]
    ELSE self

\* SelectionPrompt.on_key(event); with no options "up" and "down" raise
\* ZeroDivisionError and "enter" raises IndexError before any assignment
SelectionPrompt_on_key(self, event) ==
    IF event.key = "up"
    THEN IF self.options = <<>> THEN self
         ELSE [self EXCEPT !.selected_idx = (self.selected_idx - 1) % Len(self.options)]
    ELSE IF event.key = "down"
    THEN IF self.options = <<>> THEN self
         ELSE [self EXCEPT !.selected_idx = (self.selected_idx + 1) % Len(self.options)]
    ELSE IF event.key = "enter"
    THEN IF self.options = <<>> THEN self
         ELSE SelectionPrompt_resolve(self, self.options[self.selected_idx + 1][1])
    ELSE IF IsDigit(event.key)
    THEN LET idx == IntOf(event.key) - 1 IN
         IF 0 <= idx /\ idx < Len(self.options)
         THEN SelectionPrompt_resolve(self, self.options[idx + 1][1])
         ELSE self
    ELSE self

\* SelectionPrompt.cancel()
SelectionPrompt_cancel(self) == SelectionPrompt_resolve(self, "")

\* SelectionPrompt.wait(), once the event is set: the value it returns
SelectionPrompt_wait(self) ==
    [self EXCEPT !.waited = TRUE, !.returned = self.result_value]

\* QuestionPrompt.__init__(questions): each question has its text and the
\* labels of its options; answers is the dict, a set of (question, answer)
\* pairs. wait() returns the dict object itself: while aliased, the
\* returned value is the dict self.answers refers to.
QuestionPrompt(questions) ==
    [questions |-> questions, current_q |-> 0, selected_idx |-> 0,
     answers |-> {}, result_event |-> FALSE, in_other_mode |-> FALSE,
     waited |-> FALSE, aliased |-> FALSE, returned |-> {}]

\* answers[question] = answer
SetItem(d, question, answer) ==
    {p \in d : p[1] # question} \cup {<<question, answer>>}

\* q.get("options", []) of the current question
CurrentOptions(self) == self.questions[self.current_q + 1].options

\* QuestionPrompt._resolve()
QuestionPrompt_resolve(self) ==
    IF ~self.result_event THEN [self EXCEPT !.result_event = TRUE] ELSE self

\* mutant: the selection stays where it was on the next question
QuestionPrompt_record_answer_KeepsIdx(self, answer) ==
    LET q == self.questions[self.current_q + 1]
        d == SetItem(self.answers, q.question, answer)
        set == [self EXCEPT !.answers = d,
                            !.returned = IF self.aliased THEN d ELSE self.returned]
    IN  IF self.current_q < Len(self.questions) - 1
        THEN [set EXCEPT !.current_q = self.current_q + 1, !.in_other_mode = FALSE]
        ELSE QuestionPrompt_resolve(set)

\* QuestionPrompt._record_answer(answer), with _update_display()
QuestionPrompt_record_answer(self, answer) ==
    LET q == self.questions[self.current_q + 1]
        d == SetItem(self.answers, q.question, answer)
        set == [self EXCEPT !.answers = d,
                            !.returned = IF self.aliased THEN d ELSE self.returned]
    IN  IF self.current_q < Len(self.questions) - 1
        THEN [set EXCEPT !.current_q = self.current_q + 1, !.selected_idx = 0,
                         !.in_other_mode = FALSE]
        ELSE QuestionPrompt_resolve(set)

\* QuestionPrompt._enter_other_mode()
QuestionPrompt_enter_other_mode(self) == [self EXCEPT !.in_other_mode = TRUE]

\* QuestionPrompt._exit_other_mode()
QuestionPrompt_exit_other_mode(self) == [self EXCEPT !.in_other_mode = FALSE]

\* QuestionPrompt._select_current()
QuestionPrompt_select_current(self) ==
    IF self.selected_idx < Len(CurrentOptions(self))
    THEN QuestionPrompt_record_answer(self, CurrentOptions(self)[self.selected_idx + 1])
    ELSE QuestionPrompt_enter_other_mode(self)

\* QuestionPrompt._submit_other(); value is the text of the Input widget
QuestionPrompt_submit_other(self, value) ==
    LET answer == Strip(value) IN
    IF answer # <<>> THEN QuestionPrompt_record_answer(self, answer)
    ELSE QuestionPrompt_exit_other_mode(self)

\* QuestionPrompt.on_key(event); value is the text of the Input widget
QuestionPrompt_on_key(self, event, value) ==
    IF self.in_other_mode
    THEN IF event.key = "escape" THEN QuestionPrompt_exit_other_mode(self)
         ELSE IF event.key = "enter" THEN QuestionPrompt_submit_other(self, value)
         ELSE self
    ELSE LET total == Len(CurrentOptions(self)) + 1 IN
         IF event.key = "up"
         THEN [self EXCEPT !.selected_idx = (self.selected_idx - 1) % total]
         ELSE IF event.key = "down"
         THEN [self EXCEPT !.selected_idx = (self.selected_idx + 1) % total]
         ELSE IF event.key = "enter" THEN QuestionPrompt_select_current(self)
         ELSE IF IsDigit(event.key)
         THEN LET idx == IntOf(event.key) - 1 IN
              IF 0 <= idx /\ idx < total
              THEN QuestionPrompt_select_current([self EXCEPT !.selected_idx = idx])
              ELSE self
         ELSE self

\* QuestionPrompt.cancel(): self.answers is bound to a new, empty dict
QuestionPrompt_cancel(self) ==
    QuestionPrompt_resolve([self EXCEPT !.answers = {}, !.aliased = FALSE])

\* QuestionPrompt.wait(), once the event is set: it returns the dict
\* self.answers refers to
QuestionPrompt_wait(self) ==
    [self EXCEPT !.waited = TRUE, !.aliased = TRUE, !.returned = self.answers]

\* ------------------------------------------------------------------------
\* claude_alamode/widgets/scroll.py
\* ------------------------------------------------------------------------
\* AutoHideScroll.HIDE_DELAY, in seconds
HIDE_DELAY == 2

\* the last second of the clock
MaxTime == 10

\* an AutoHideScroll after construction: no class, no timer; lastScroll is
\* the time of the most recent scroll event (<<>> before the first)
AutoHideScroll == [visible |-> FALSE, timers |-> {}, lastScroll |-> <<>>]

\* AutoHideScroll._on_scroll() at time t: add_class("scrollbar-visible")
\* and set_timer(HIDE_DELAY, ...), which starts one more timer
AutoHideScroll_on_scroll(self, t) ==
    [visible |-> TRUE, timers |-> self.timers \cup {t + HIDE_DELAY}, lastScroll |-> <<t>>]

\* the callback of the timer due at time due: remove_class("scrollbar-visible")
AutoHideScroll_hide(self, due) ==
    [self EXCEPT !.visible = FALSE, !.timers = self.timers \ {due}]

\* ------------------------------------------------------------------------
\* State machine
\* ------------------------------------------------------------------------
NoCall ==
    [op |-> "none", arg |-> <<>>, cwd |-> MainPath, listed |-> <<>>,
     res |-> Result(FALSE, "", <<>>, <<>>)]

\* the callers that may run side by side
Callers == {"a", "b"}

\* a caller that is making no call
IdleCall ==
    [pc |-> "idle", op |-> "none", arg |-> <<>>, cwd |-> <<>>, target |-> <<>>,
     listed |-> <<>>, current |-> <<>>, cmds |-> <<>>,
     res |-> Result(FALSE, "", <<>>, <<>>)]

\* the listing a call made in directory cwd reads (none when git fails there)
Snapshot(wts, cwd) == IF GitOk(wts, cwd) THEN list_worktrees(wts, cwd) ELSE <<>>

\* the repository and the callers of worktree.py
repoVars == <<worktrees, branches, dirs, procCwd, last, created, printed, calls>>

\* a repository with its main checkout; no call has been made
RepoInit ==
    /\ worktrees = <<[path |-> MainPath, branch |-> MainBranch, detached |-> FALSE]>>
    /\ branches = {MainBranch}
    /\ dirs = {Outside}
    /\ procCwd = MainPath
    /\ last = NoCall
    /\ created = {}
    /\ printed = <<>>
    /\ calls = [c \in Callers |-> IdleCall]

\* no prompt is on screen; the scroll container has not been scrolled
Init ==
    /\ RepoInit
    /\ worktreePrompt = WorktreePrompt(<<>>)
    /\ selectionPrompt = SelectionPrompt(<<>>)
    /\ questionPrompt = QuestionPrompt(<<[question |-> "q1", options |-> <<>>]>>)
    /\ focused = "none"
    /\ scrollbar = AutoHideScroll
    /\ now = 0

\* a caller runs start_worktree(feature_name)
StartCall(feature_name) ==
    /\ last = NoCall
    /\ Len(worktrees) < MaxWorktrees
    /\ LET r == start_worktree(worktrees, branches, dirs, procCwd, feature_name) IN
       /\ worktrees' = r.worktrees
       /\ branches' = r.branches
       /\ last' = [op |-> "start", arg |-> <<feature_name>>, cwd |-> procCwd,
                   listed |-> Snapshot(worktrees, procCwd), res |-> r.res]
       /\ created' = IF r.res.ok
                     THEN created \cup {[feature |-> feature_name, path |-> r.res.payload[1]]}
                     ELSE created
    /\ UNCHANGED <<uiVars, dirs, procCwd, printed, calls>>

\* the directories a caller may pass to get_finish_worktree_info
FinishArgs ==
    {<<>>, <<MainPath>>, <<Outside>>, <<LinkPath>>, <<LinkTarget \o <<"/", "s">> >>}
    \cup {<<worktrees[i].path>> : i \in 1..Len(worktrees)}

\* a caller runs get_finish_worktree_info(cwd)
FinishCall(arg) ==
    /\ last = NoCall
    /\ last' = [op |-> "finish", arg |-> arg, cwd |-> procCwd,
                listed |-> Snapshot(worktrees, procCwd),
                res |-> get_finish_worktree_info(worktrees, procCwd, arg)]
    /\ UNCHANGED <<uiVars, worktrees, branches, dirs, procCwd, created, printed, calls>>

\* a caller runs list_worktrees()
ListCall ==
    /\ last = NoCall
    /\ last' = [op |-> "list", arg |-> <<>>, cwd |-> procCwd,
                listed |-> Snapshot(worktrees, procCwd),
                res |-> IF GitOk(worktrees, procCwd)
                        THEN Result(TRUE, "", <<>>, <<>>) ELSE Raised]
    /\ UNCHANGED <<uiVars, worktrees, branches, dirs, procCwd, created, printed, calls>>

\* the process runs in another worktree, or outside the repository
Chdir(p) ==
    /\ last = NoCall
    /\ p # procCwd
    /\ procCwd' = p
    /\ UNCHANGED <<uiVars, worktrees, branches, dirs, last, created, printed, calls>>

\* `git checkout --detach` in worktree i
GitCheckoutDetach(i) ==
    /\ last = NoCall
    /\ ~worktrees[i].detached
    /\ worktrees' = [worktrees EXCEPT ![i] = [@ EXCEPT !.branch = <<>>, !.detached = TRUE]]
    /\ UNCHANGED <<uiVars, branches, dirs, procCwd, last, created, printed, calls>>

\* `git switch b` in worktree i: b is checked out in no worktree
GitSwitch(i, b) ==
    /\ last = NoCall
    /\ \A j \in 1..Len(worktrees) : worktrees[j].detached \/ worktrees[j].branch # b
    /\ worktrees' = [worktrees EXCEPT ![i] = [@ EXCEPT !.branch = b, !.detached = FALSE]]
    /\ UNCHANGED <<uiVars, branches, dirs, procCwd, last, created, printed, calls>>

\* `git worktree remove` of linked worktree i (not the one the process is in);
\* its branch and the directories leading to it stay
GitWorktreeRemove(i) ==
    /\ last = NoCall
    /\ i > 1
    /\ ~IsPathPrefix(worktrees[i].path, procCwd)
    /\ LET gone == worktrees[i].path
           rest == SubSeq(worktrees, 1, i - 1) \o SubSeq(worktrees, i + 1, Len(worktrees))
       IN  /\ worktrees' = rest
           /\ dirs' = IF Exists(rest, dirs, Parent(gone)) THEN dirs ELSE dirs \cup {Parent(gone)}
           /\ created' = {c \in created : c.path # gone}
    /\ UNCHANGED <<uiVars, branches, procCwd, last, printed, calls>>

\* the caller takes the result of its call; it makes one call at a time
Return ==
    /\ last # NoCall
    /\ last' = NoCall
    /\ UNCHANGED <<uiVars, worktrees, branches, dirs, procCwd, created, printed, calls>>

Next ==
    \/ \E f \in FeatureNames : StartCall(f)
    \/ \E a \in FinishArgs : FinishCall(a)
    \/ ListCall
    \/ \E i \in 1..Len(worktrees) : Chdir(worktrees[i].path)
    \/ Chdir(Outside)
    \/ \E i \in 1..Len(worktrees) : GitCheckoutDetach(i)
    \/ \E i \in 1..Len(worktrees), b \in branches : GitSwitch(i, b)
    \/ \E i \in 1..Len(worktrees) : GitWorktreeRemove(i)
    \/ Return

Spec == Init /\ [][Next]_vars

\* ------------------------------------------------------------------------
\* The parser of list_worktrees on any listing text: the listing command is
\* stubbed and prints lines of the porcelain format in any order
\* ------------------------------------------------------------------------
\* the lines the stub prints: worktree lines, branch lines, the line of a
\* detached worktree, the blank line
PorcelainLines ==
    {S_worktree \o MainPath, S_worktree \o LinkTarget,
     S_branch \o MainBranch, S_branch \o <<"f">>,
     S_detached, <<>>}

\* what may follow the last printed line: nothing, a newline, a newline and
\* a blank line
Trailers == {<<>>, NL, NL \o NL}

\* the stub prints one more line
GitPrints(l) ==
    /\ last = NoCall
    /\ Len(printed) < MaxLines
    /\ printed' = Append(printed, l)
    /\ UNCHANGED <<uiVars, worktrees, branches, dirs, procCwd, last, created, calls>>

\* list_worktrees() parses the printed lines followed by trail
ParseCall(trail) ==
    /\ last = NoCall
    /\ last' = [op |-> "parse", arg |-> <<trail>>, cwd |-> procCwd,
                listed |-> ParseListing(Join(printed, NL) \o trail,
                                        get_repo_name(worktrees, procCwd)),
                res |-> Result(TRUE, "", <<>>, <<>>)]
    /\ UNCHANGED <<uiVars, worktrees, branches, dirs, procCwd, created, printed, calls>>

ParseNext ==
    \/ \E l \in PorcelainLines : GitPrints(l)
    \/ \E t \in Trailers : ParseCall(t)
    \/ Return

ParseSpec == Init /\ [][ParseNext]_vars

\* ------------------------------------------------------------------------
\* Several callers at once: each subprocess call of an operation is a step
\* of its own, and the steps of different callers interleave.  The commands
\* that only read (rev-parse, branch --show-current) depend on nothing
\* another caller changes, so each is taken together with the step it
\* precedes; cmds records every command a call has issued.
\* ------------------------------------------------------------------------
\* the commands of one list_worktrees(): the listing, then get_repo_name()
\* for every record appended
ListCmds(listed) == <<"worktree list">> \o [i \in 1..Len(listed) |-> "rev-parse"]

\* the call of caller c has returned res
Done(c, res, cmds) ==
    [calls[c] EXCEPT !.pc = "done", !.res = res, !.cmds = cmds]

\* how many start_worktree calls are between their listing and their add
StartsInFlight ==
    Cardinality({c \in Callers : calls[c].op = "start" /\ calls[c].pc \in {"check", "add"}})

\* mutant: the target directory is named after the current branch instead
\* of the feature
StartResolve_NamesByBase(c, feature_name, cwd) ==
    /\ calls[c].pc = "idle"
    /\ Len(worktrees) + StartsInFlight < MaxWorktrees
    /\ LET begun == [IdleCall EXCEPT !.op = "start", !.arg = <<feature_name>>, !.cwd = cwd] IN
       IF ~GitOk(worktrees, cwd)
       THEN calls' = [calls EXCEPT ![c] =
                [begun EXCEPT !.pc = "done", !.cmds = <<"rev-parse">>,
                              !.res = Result(FALSE, MsgGitError, <<"fatal: not a git repository">>, <<>>)]]
       ELSE LET repo_name == get_repo_name(worktrees, cwd)
                base_branch == get_current_branch(worktrees, cwd)
                listed == list_worktrees(worktrees, cwd)
                main_wt == FirstMain(listed, 1)
                parent_dir == IF main_wt # <<>> THEN Parent(main_wt[1].path) ELSE Parent(cwd)
            IN  calls' = [calls EXCEPT ![c] =
                   [begun EXCEPT !.pc = "check",
                                 !.target = Div(parent_dir, repo_name \o <<"-">> \o base_branch),
                                 !.listed = listed,
                                 !.cmds = <<"rev-parse", "branch">> \o ListCmds(listed)]]
    /\ UNCHANGED <<uiVars, worktrees, branches, dirs, procCwd, last, created, printed>>

\* start_worktree, lines 33-43: caller c in directory cwd reads the
\* repository name, the current branch and the listing, and computes the
\* target directory
StartResolve(c, feature_name, cwd) ==
    /\ calls[c].pc = "idle"
    /\ Len(worktrees) + StartsInFlight < MaxWorktrees
    /\ LET begun == [IdleCall EXCEPT !.op = "start", !.arg = <<feature_name>>, !.cwd = cwd] IN
       IF ~GitOk(worktrees, cwd)
       THEN calls' = [calls EXCEPT ![c] =
                [begun EXCEPT !.pc = "done", !.cmds = <<"rev-parse">>,
                              !.res = Result(FALSE, MsgGitError, <<"fatal: not a git repository">>, <<>>)]]
       ELSE LET repo_name == get_repo_name(worktrees, cwd)
                listed == list_worktrees(worktrees, cwd)
                main_wt == FirstMain(listed, 1)
                parent_dir == IF main_wt # <<>> THEN Parent(main_wt[1].path) ELSE Parent(cwd)
            IN  calls' = [calls EXCEPT ![c] =
                   [begun EXCEPT !.pc = "check",
                                 !.target = Div(parent_dir, repo_name \o <<"-">> \o feature_name),
                                 !.listed = listed,
                                 !.cmds = <<"rev-parse", "branch">> \o ListCmds(listed)]]
    /\ UNCHANGED <<uiVars, worktrees, branches, dirs, procCwd, last, created, printed>>

\* mutant: the pre-flight check is left out and the call goes on to the add
StartCheck_Skips(c) ==
    /\ calls[c].op = "start"
    /\ calls[c].pc = "check"
    /\ calls' = [calls EXCEPT ![c] = [calls[c] EXCEPT !.pc = "add"]]
    /\ UNCHANGED <<uiVars, worktrees, branches, dirs, procCwd, last, created, printed>>

\* start_worktree, lines 45-46: the pre-flight check of the target directory
StartCheck(c) ==
    /\ calls[c].op = "start"
    /\ calls[c].pc = "check"
    /\ calls' = [calls EXCEPT ![c] =
          IF Exists(worktrees, dirs, calls[c].target)
          THEN Done(c, Result(FALSE, MsgDirExists, calls[c].target, <<>>), calls[c].cmds)
          ELSE [calls[c] EXCEPT !.pc = "add"]]
    /\ UNCHANGED <<uiVars, worktrees, branches, dirs, procCwd, last, created, printed>>

\* mutant: the add runs without check=True, its exit code is ignored
StartAdd_IgnoresExit(c) ==
    /\ calls[c].op = "start"
    /\ calls[c].pc = "add"
    /\ LET feature_name == calls[c].arg[1]
           worktree_dir == calls[c].target
           run == GitWorktreeAdd(worktrees, branches, dirs, feature_name, worktree_dir)
           cmds == Append(calls[c].cmds, "worktree add")
       IN  /\ worktrees' = run.worktrees
           /\ branches' = run.branches
           /\ created' = created \cup {[feature |-> feature_name, path |-> worktree_dir]}
           /\ calls' = [calls EXCEPT ![c] =
                 Done(c, Result(TRUE, MsgCreated, worktree_dir, <<worktree_dir>>), cmds)]
    /\ UNCHANGED <<uiVars, dirs, procCwd, last, printed>>

\* start_worktree, lines 49-57: the worktree-add command and the result
StartAdd(c) ==
    /\ calls[c].op = "start"
    /\ calls[c].pc = "add"
    /\ LET feature_name == calls[c].arg[1]
           worktree_dir == calls[c].target
           run == GitWorktreeAdd(worktrees, branches, dirs, feature_name, worktree_dir)
           cmds == Append(calls[c].cmds, "worktree add")
       IN  /\ worktrees' = run.worktrees
           /\ branches' = run.branches
           /\ created' = IF run.rc = 0
                         THEN created \cup {[feature |-> feature_name, path |-> worktree_dir]}
                         ELSE created
           /\ calls' = [calls EXCEPT ![c] =
                 IF run.rc # 0
                 THEN Done(c, Result(FALSE, MsgGitError, run.stderr, <<>>), cmds)
                 ELSE Done(c, Result(TRUE, MsgCreated, worktree_dir, <<worktree_dir>>), cmds)]
    /\ UNCHANGED <<uiVars, dirs, procCwd, last, printed>>

\* get_finish_worktree_info, lines 82-89: caller c in directory pcwd lists
\* the worktrees and looks for the record at the resolved directory
FinishMatch(c, arg, pcwd) ==
    /\ calls[c].pc = "idle"
    /\ LET begun == [IdleCall EXCEPT !.op = "finish", !.arg = arg, !.cwd = pcwd]
           cwd == Resolve(IF arg = <<>> THEN pcwd ELSE arg[1])
       IN  IF ~GitOk(worktrees, pcwd)
           THEN calls' = [calls EXCEPT ![c] =
                   [begun EXCEPT !.pc = "done", !.cmds = <<"worktree list">>, !.res = Raised]]
           ELSE LET listed == list_worktrees(worktrees, pcwd)
                    current_wt == FirstAt(listed, cwd, 1)
                    read == [begun EXCEPT !.listed = listed, !.cmds = ListCmds(listed)]
                IN  calls' = [calls EXCEPT ![c] =
                       IF current_wt = <<>> \/ current_wt[1].is_main
                       THEN [read EXCEPT !.pc = "done",
                                         !.res = Result(FALSE, MsgNotInFeature, <<>>, <<>>)]
                       ELSE [read EXCEPT !.pc = "main", !.current = current_wt]]
    /\ UNCHANGED <<uiVars, worktrees, branches, dirs, procCwd, last, created, printed>>

\* mutant: the operation carries the finish out itself and removes the
\* worktree it matched
FinishMain_Removes(c) ==
    /\ calls[c].op = "finish"
    /\ calls[c].pc = "main"
    /\ LET again == list_worktrees(worktrees, calls[c].cwd)
           main_wt == FirstMain(again, 1)
           cmds == calls[c].cmds \o ListCmds(again) \o <<"worktree remove">>
       IN  /\ calls' = [calls EXCEPT ![c] =
                 IF main_wt = <<>>
                 THEN Done(c, Result(FALSE, MsgNoMain, <<>>, <<>>), cmds)
                 ELSE Done(c, Result(TRUE, MsgReady, <<>>,
                                     <<FinishInfo(calls[c].current[1], main_wt[1])>>), cmds)]
           /\ worktrees' = SelectSeq(worktrees, LAMBDA w : w.path # calls[c].current[1].path)
    /\ UNCHANGED <<uiVars, branches, dirs, procCwd, last, created, printed>>

\* get_finish_worktree_info, lines 91-102: get_main_worktree() lists the
\* worktrees again and the result is put together
FinishMain(c) ==
    /\ calls[c].op = "finish"
    /\ calls[c].pc = "main"
    /\ LET again == list_worktrees(worktrees, calls[c].cwd)
           main_wt == FirstMain(again, 1)
           cmds == calls[c].cmds \o ListCmds(again)
       IN  calls' = [calls EXCEPT ![c] =
              IF main_wt = <<>>
              THEN Done(c, Result(FALSE, MsgNoMain, <<>>, <<>>), cmds)
              ELSE Done(c, Result(TRUE, MsgReady, <<>>,
                                  <<FinishInfo(calls[c].current[1], main_wt[1])>>), cmds)]
    /\ UNCHANGED <<uiVars, worktrees, branches, dirs, procCwd, last, created, printed>>

\* caller c takes the result of its call
Take(c) ==
    /\ calls[c].pc = "done"
    /\ calls' = [calls EXCEPT ![c] = IdleCall]
    /\ UNCHANGED <<uiVars, worktrees, branches, dirs, procCwd, last, created, printed>>

ConcNext ==
    \/ \E c \in Callers, f \in FeatureNames : StartResolve(c, f, procCwd)
    \/ \E c \in Callers : StartCheck(c)
    \/ \E c \in Callers : StartAdd(c)
    \/ \E c \in Callers, i \in 1..Len(worktrees) :
          FinishMatch(c, <<worktrees[i].path>>, procCwd)
    \/ \E c \in Callers : FinishMain(c)
    \/ \E c \in Callers : Take(c)
    \/ \E i \in 1..Len(worktrees) : GitCheckoutDetach(i)

ConcSpec == Init /\ [][ConcNext]_vars

\* ------------------------------------------------------------------------
\* Creations and listings side by side: two callers in the main checkout
\* create worktrees for feature names of which one may lie under another
\* ("x" and "x/r"), and list the worktrees meanwhile
\* ------------------------------------------------------------------------
RaceNames == {<<"f">>, <<"x">>, <<"x", "/", "r">>}

\* list_worktrees(), lines 113-144, by caller c: one listing command, whose
\* output is parsed
ListStep(c) ==
    /\ calls[c].pc = "idle"
    /\ GitOk(worktrees, procCwd)
    /\ LET listed == list_worktrees(worktrees, procCwd) IN
       calls' = [calls EXCEPT ![c] =
          [IdleCall EXCEPT !.pc = "done", !.op = "list", !.cwd = procCwd,
                           !.listed = listed, !.cmds = ListCmds(listed),
                           !.res = Result(TRUE, "", <<>>, <<>>)]]
    /\ UNCHANGED <<uiVars, worktrees, branches, dirs, procCwd, last, created, printed>>

RaceNext ==
    \/ \E c \in Callers, f \in RaceNames : StartResolve(c, f, procCwd)
    \/ \E c \in Callers : StartCheck(c)
    \/ \E c \in Callers : StartAdd(c)
    \/ \E c \in Callers : ListStep(c)
    \/ \E c \in Callers : Take(c)

RaceSpec == Init /\ [][RaceNext]_vars

\* ------------------------------------------------------------------------
\* get_finish_worktree_info step by step while another process works on the
\* repository: it creates worktrees, detaches and switches branches, and
\* removes worktrees between the steps of caller "a"
\* ------------------------------------------------------------------------
\* the feature name the other process creates worktrees for
FinishNames == {<<"f">>}

FinishNext ==
    \/ \E f \in FinishNames : StartCall(f)
    \/ Return
    \/ \E i \in 1..Len(worktrees) : FinishMatch("a", <<worktrees[i].path>>, procCwd)
    \/ FinishMain("a")
    \/ Take("a")
    \/ \E i \in 1..Len(worktrees) : GitCheckoutDetach(i)
    \/ \E i \in 1..Len(worktrees), b \in branches : GitSwitch(i, b)
    \/ \E i \in 1..Len(worktrees) : GitWorktreeRemove(i)

FinishSpec == Init /\ [][FinishNext]_vars

\* ------------------------------------------------------------------------
\* A prompt on screen: the app builds one prompt, mounts it (on_mount gives
\* it the focus, so the key events go to it), and awaits wait()
\* ------------------------------------------------------------------------
\* the lists of (path, branch) a WorktreePrompt is built with
WorktreeLists ==
    {<<>>, << <<MainPath, MainBranch>> >>,
     << <<MainPath, MainBranch>>, <<LinkTarget, <<"f">> >> >>}

\* the lists of (value, label) a SelectionPrompt is built with
OptionLists ==
    {<<>>, << <<"y", "Yes">> >>, << <<"y", "Yes">>, <<"n", "No">> >>,
     << <<"y", "Yes">>, <<"n", "No">>, <<"a", "Always">> >>}

\* two questions: one with three options, one with a single option
Q1 == [question |-> "q1", options |-> << <<"A">>, <<"B">>, <<"C">> >>]
Q2 == [question |-> "q2", options |-> << <<"D">> >>]

\* the lists of questions a QuestionPrompt is built with
QuestionLists == {<<Q1>>, <<Q1, Q2>>, <<Q2, Q1>>}

\* the texts the user may have typed into the Input widget of "Other"
InputValues == {<<>>, <<" ">>, <<"c">>, <<" ", "c", " ">>}

PromptInit ==
    /\ RepoInit
    /\ focused \in {"worktree", "selection", "question"}
    /\ worktreePrompt \in
         {WorktreePrompt(w) : w \in IF focused = "worktree" THEN WorktreeLists ELSE {<<>>}}
    /\ selectionPrompt \in
         {SelectionPrompt(o) : o \in IF focused = "selection" THEN OptionLists ELSE {<<>>}}
    /\ questionPrompt \in
         {QuestionPrompt(q) : q \in IF focused = "question" THEN QuestionLists ELSE {<<Q1>>}}
    /\ scrollbar = AutoHideScroll
    /\ now = 0

\* the focused WorktreePrompt receives a key event
WorktreeKey(event) ==
    /\ focused = "worktree"
    /\ Len(WorktreePrompt_on_key(worktreePrompt, event).new_text) <= MaxText
    /\ worktreePrompt' = WorktreePrompt_on_key(worktreePrompt, event)
    /\ UNCHANGED <<repoVars, selectionPrompt, questionPrompt, focused, scrollbar, now>>

\* wait() of the WorktreePrompt finds the event set and returns
WorktreeWait ==
    /\ focused = "worktree"
    /\ worktreePrompt.result_event
    /\ ~worktreePrompt.waited
    /\ worktreePrompt' = WorktreePrompt_wait(worktreePrompt)
    /\ UNCHANGED <<repoVars, selectionPrompt, questionPrompt, focused, scrollbar, now>>

\* the focused SelectionPrompt receives a key event
SelectionKey(event) ==
    /\ focused = "selection"
    /\ selectionPrompt' = SelectionPrompt_on_key(selectionPrompt, event)
    /\ UNCHANGED <<repoVars, worktreePrompt, questionPrompt, focused, scrollbar, now>>

\* the app calls cancel() of the SelectionPrompt
SelectionCancel ==
    /\ focused = "selection"
    /\ selectionPrompt' = SelectionPrompt_cancel(selectionPrompt)
    /\ UNCHANGED <<repoVars, worktreePrompt, questionPrompt, focused, scrollbar, now>>

\* wait() of the SelectionPrompt finds the event set and returns
SelectionWait ==
    /\ focused = "selection"
    /\ selectionPrompt.result_event
    /\ ~selectionPrompt.waited
    /\ selectionPrompt' = SelectionPrompt_wait(selectionPrompt)
    /\ UNCHANGED <<repoVars, worktreePrompt, questionPrompt, focused, scrollbar, now>>

\* the focused QuestionPrompt receives a key event; value is what the Input
\* widget of "Other" holds
QuestionKey(event, value) ==
    /\ focused = "question"
    /\ questionPrompt' = QuestionPrompt_on_key(questionPrompt, event, value)
    /\ UNCHANGED <<repoVars, worktreePrompt, selectionPrompt, focused, scrollbar, now>>

\* the app calls cancel() of the QuestionPrompt
QuestionCancel ==
    /\ focused = "question"
    /\ questionPrompt' = QuestionPrompt_cancel(questionPrompt)
    /\ UNCHANGED <<repoVars, worktreePrompt, selectionPrompt, focused, scrollbar, now>>

\* wait() of the QuestionPrompt finds the event set and returns
QuestionWait ==
    /\ focused = "question"
    /\ questionPrompt.result_event
    /\ ~questionPrompt.waited
    /\ questionPrompt' = QuestionPrompt_wait(questionPrompt)
    /\ UNCHANGED <<repoVars, worktreePrompt, selectionPrompt, focused, scrollbar, now>>

PromptNext ==
    \/ \E e \in KeyEvents : WorktreeKey(e)
    \/ WorktreeWait
    \/ \E e \in KeyEvents : SelectionKey(e)
    \/ SelectionCancel
    \/ SelectionWait
    \/ \E e \in KeyEvents, v \in InputValues : QuestionKey(e, v)
    \/ QuestionCancel
    \/ QuestionWait

PromptSpec == PromptInit /\ [][PromptNext]_vars

\* ------------------------------------------------------------------------
\* An AutoHideScroll on screen: scroll events, timers that run out, and
\* the passing of time
\* ------------------------------------------------------------------------
\* on_mouse_scroll_down / on_mouse_scroll_up
MouseScroll ==
    /\ scrollbar' = AutoHideScroll_on_scroll(scrollbar, now)
    /\ UNCHANGED <<repoVars, worktreePrompt, selectionPrompt, questionPrompt, focused, now>>

\* a timer that is due runs its callback
TimerFires(due) ==
    /\ due \in scrollbar.timers
    /\ due <= now
    /\ scrollbar' = AutoHideScroll_hide(scrollbar, due)
    /\ UNCHANGED <<repoVars, worktreePrompt, selectionPrompt, questionPrompt, focused, now>>

\* a second passes; the timers that are due have run
Tick ==
    /\ now < MaxTime
    /\ \A due \in scrollbar.timers : due > now
    /\ now' = now + 1
    /\ UNCHANGED <<repoVars, worktreePrompt, selectionPrompt, questionPrompt, focused, scrollbar>>

ScrollNext ==
    \/ MouseScroll
    \/ \E due \in 0..(MaxTime + HIDE_DELAY) : TimerFires(due)
    \/ Tick

ScrollSpec == Init /\ [][ScrollNext]_vars


\* ------------------------------------------------------------------------
\* Vocabulary of the properties
\* ------------------------------------------------------------------------
\* the (path, branch) pair of a record
Pair(r) == [path |-> r.path, branch |-> r.branch]

\* the (path, branch) pairs of the records of a listing, as a set
PairsOf(listed) == {Pair(listed[i]) : i \in 1..Len(listed)}

\* the pairs of the records a listing marks main / leaves unmarked
MarkedMain(listed) == {Pair(listed[i]) : i \in {k \in 1..Len(listed) : listed[k].is_main}}
Unmarked(listed) == {Pair(listed[i]) : i \in {k \in 1..Len(listed) : ~listed[k].is_main}}

\* how many records of a listing satisfy the main-name test
NumMain(listed) == Cardinality({k \in 1..Len(listed) : listed[k].is_main})

\* the registry entries that have a branch checked out, in registry order
WithBranch(wts) == SelectSeq(wts, LAMBDA w : ~w.detached)

\* the permutations of 1..n
Perms(n) == {p \in [1..n -> 1..n] : \A i, j \in 1..n : p[i] = p[j] => i = j}

\* the registry with its stanzas in the order p
Permuted(wts, p) == [i \in 1..Len(wts) |-> wts[p[i]]]

\* the last component of registry path names the repository a process in
\* directory cwd sees
NamedLikeRepo(wts, cwd) ==
    {Pair(w) : w \in {WithBranch(wts)[i] : i \in {k \in 1..Len(WithBranch(wts)) :
                         Name(WithBranch(wts)[k].path) = Name(Toplevel(wts, cwd))}}}

\* a call of op has just returned without raising
Returned(op) == last.op = op /\ ~last.res.raised

\* ------------------------------------------------------------------------
\* C1: in whatever order git lists the stanzas of the registry,
\* list_worktrees marks main exactly the records whose last path component
\* equals the repository name get_repo_name() returns, and no other record.
\* ------------------------------------------------------------------------
C1_MainExactlyByName ==
    /\ last = NoCall /\ GitOk(worktrees, procCwd) =>
         \A p \in Perms(Len(worktrees)) :
            LET listed == list_worktrees(Permuted(worktrees, p), procCwd) IN
            /\ MarkedMain(listed) = NamedLikeRepo(worktrees, procCwd)
            /\ Unmarked(listed) = PairsOf(WithBranch(worktrees)) \ NamedLikeRepo(worktrees, procCwd)
    /\ Returned("list") =>
         /\ MarkedMain(last.listed) = NamedLikeRepo(worktrees, last.cwd)
         /\ Unmarked(last.listed) = PairsOf(WithBranch(worktrees)) \ NamedLikeRepo(worktrees, last.cwd)

\* a listing of two records has returned, one marked main, the other not
C1_Witness ==
    /\ Returned("list")
    /\ Len(last.listed) = 2
    /\ last.listed[1].is_main
    /\ ~last.listed[2].is_main

\* ------------------------------------------------------------------------
\* C2: for a fixed registry, list_worktrees gives every record the same
\* is_main value whichever worktree the process runs in: the listing a call
\* returns equals the listing made from the main checkout.
\* ------------------------------------------------------------------------
C2_SameFromEveryWorktree ==
    Returned("list") => last.listed = list_worktrees(worktrees, MainPath)

\* ------------------------------------------------------------------------
\* More vocabulary
\* ------------------------------------------------------------------------
\* the resolved directory a get_finish_worktree_info call run in pcwd looks up
TargetOf(pcwd, arg) == Resolve(IF arg = <<>> THEN pcwd ELSE arg[1])

\* the registry entries with a branch whose resolved path is directory d
EntriesAt(wts, d) ==
    {WithBranch(wts)[i] : i \in {k \in 1..Len(WithBranch(wts)) :
                                   Resolve(WithBranch(wts)[k].path) = d}}

\* the first record marked main of a listing that has one
FirstMarked(listed) ==
    listed[CHOOSE k \in 1..Len(listed) :
              listed[k].is_main /\ \A j \in 1..(k - 1) : ~listed[j].is_main]

\* the directory start_worktree(f) makes next to directory d for a process
\* in directory cwd
SiblingOf(d, wts, cwd, f) == Div(Parent(d), Name(Toplevel(wts, cwd)) \o <<"-">> \o f)

\* which failure condition of finish resolution a call run in pcwd with
\* argument arg meets: "a" no matching record, "b" the matching record is
\* named like the repository, "c" no record is named like the repository
CondOf(wts, pcwd, arg) ==
    LET at == EntriesAt(wts, TargetOf(pcwd, arg)) IN
    IF ~GitOk(wts, pcwd) THEN "raised"
    ELSE IF at = {} THEN "a"
    ELSE IF \E w \in at : Name(w.path) = Name(Toplevel(wts, pcwd)) THEN "b"
    ELSE IF NamedLikeRepo(wts, pcwd) = {} THEN "c"
    ELSE "ok"

\* ------------------------------------------------------------------------
\* C3 (as claimed): whenever the listing holds zero or more than one record
\* satisfying the main-name test, start_worktree and
\* get_finish_worktree_info both return a failure.
\* ------------------------------------------------------------------------
C3_FailClosed ==
    (Returned("start") \/ Returned("finish")) /\ GitOk(worktrees, last.cwd)
    /\ NumMain(last.listed) # 1
    => ~last.res.ok

\* C3 (amended): with no record satisfying the main-name test,
\* get_finish_worktree_info returns a failure, while start_worktree goes on
\* with the parent of the process's current directory; with more than one
\* such record both operations take the first of them in listing order.
C3_ZeroOrManyMain ==
    /\ Returned("finish") /\ NumMain(last.listed) = 0
       => ~last.res.ok /\ last.res.payload = <<>>
    /\ Returned("start") /\ GitOk(worktrees, last.cwd) /\ NumMain(last.listed) = 0
       => /\ last.res.msg \in {MsgCreated, MsgDirExists, MsgGitError}
          /\ last.res.msg \in {MsgCreated, MsgDirExists}
             => last.res.detail = SiblingOf(last.cwd, worktrees, last.cwd, last.arg[1])
    /\ Returned("finish") /\ NumMain(last.listed) > 1 /\ last.res.ok
       => /\ last.res.payload[1].main_dir = FirstMarked(last.listed).path
          /\ last.res.payload[1].base_branch = FirstMarked(last.listed).branch
    /\ Returned("start") /\ NumMain(last.listed) > 1
       => /\ last.res.msg \in {MsgCreated, MsgDirExists, MsgGitError}
          /\ last.res.msg \in {MsgCreated, MsgDirExists}
             => last.res.detail =
                  SiblingOf(FirstMarked(last.listed).path, worktrees, last.cwd, last.arg[1])

\* start_worktree has succeeded on a listing with records, none of them
\* satisfying the main-name test
C3_Witness ==
    /\ Returned("start")
    /\ NumMain(last.listed) = 0
    /\ Len(last.listed) > 0
    /\ last.res.ok

\* ------------------------------------------------------------------------
\* C4 (as claimed): after a successful start_worktree(feature_name) with a
\* non-empty name, a fresh listing holds a new record with branch
\* feature_name and is_main false, and every record listed before the call.
\* ------------------------------------------------------------------------
C4_NewRecordNotMain ==
    Returned("start") /\ last.res.ok /\ last.arg[1] # <<>>
    => LET fresh == list_worktrees(worktrees, last.cwd)
           before == {last.listed[i] : i \in 1..Len(last.listed)}
           after == {fresh[i] : i \in 1..Len(fresh)}
       IN  /\ \E r \in after \ before : r.branch = last.arg[1] /\ ~r.is_main
           /\ before \subseteq after

C6_MainPathRefused ==
    Returned("finish") /\ TargetOf(last.cwd, last.arg) = MainPath
    => /\ ~last.res.ok
       /\ last.res.payload = <<>>
       /\ last.res.msg = MsgNotInFeature

\* ------------------------------------------------------------------------
\* C7: get_finish_worktree_info called with a directory that is the path of
\* no record of the registry returns the not-in-a-feature-worktree failure
\* and no FinishInfo.
\* ------------------------------------------------------------------------
C7_UnknownPathRefused ==
    Returned("finish") /\ EntriesAt(worktrees, TargetOf(last.cwd, last.arg)) = {}
    => last.res = Result(FALSE, MsgNotInFeature, <<>>, <<>>)

\* the call was made with a subdirectory of an existing feature worktree
C7_Witness ==
    /\ Returned("finish")
    /\ last.cwd = MainPath
    /\ last.arg = <<LinkTarget \o <<"/", "s">> >>
    /\ EntriesAt(worktrees, LinkTarget) # {}
    /\ last.res.msg = MsgNotInFeature

C9_CreateThenFinish ==
    /\ Returned("start") /\ last.cwd = MainPath /\ ~worktrees[1].detached /\ last.res.ok
       => last.res.payload = <<MainPath \o <<"-">> \o last.arg[1]>>
    /\ Returned("finish") /\ last.cwd = MainPath /\ ~worktrees[1].detached
       => \A c \in created :
            /\ c.path = MainPath \o <<"-">> \o c.feature
            /\ last.arg = <<c.path>>
            /\ \E w \in EntriesAt(worktrees, c.path) : w.branch = c.feature
            => last.res = Result(TRUE, MsgReady, <<>>,
                                 <<[branch_name |-> c.feature,
                                    base_branch |-> worktrees[1].branch,
                                    worktree_dir |-> c.path,
                                    main_dir |-> MainPath]>>)

\* ------------------------------------------------------------------------
\* C10: parsing git's listing yields one record for each stanza that has a
\* worktree line and a branch line, none for a detached worktree, in the
\* order of the stanzas.
\* ------------------------------------------------------------------------
C10_OneRecordPerBranchStanza ==
    LET want == [i \in 1..Len(WithBranch(worktrees)) |->
                    [path |-> WithBranch(worktrees)[i].path,
                     branch |-> WithBranch(worktrees)[i].branch]]
        got(listed) == [i \in 1..Len(listed) |-> Pair(listed[i])]
    IN  /\ last = NoCall /\ GitOk(worktrees, procCwd)
           => got(list_worktrees(worktrees, procCwd)) = want
        /\ Returned("list") => got(last.listed) = want

\* a listing of three stanzas, the second detached, gave two records
C10_Witness ==
    /\ Returned("list")
    /\ Len(worktrees) = 3
    /\ worktrees[2].detached
    /\ ~worktrees[3].detached
    /\ Len(last.listed) = 2

\* ------------------------------------------------------------------------
\* Vocabulary of the parser properties
\* ------------------------------------------------------------------------
\* the stanzas of a sequence of lines: the runs of lines between blank lines
StanzasOf(ls) == Split(ls, <<>>)

\* the positions of the lines of stanza g that start with prefix
LinesWith(g, prefix) == {i \in 1..Len(g) : StartsWith(g[i], prefix)}

\* the largest member of a non-empty set of numbers
Largest(S) == CHOOSE i \in S : \A k \in S : k <= i

\* stanza g has a worktree line and a branch line that names a branch
Complete(g) ==
    /\ LinesWith(g, S_worktree) # {}
    /\ LinesWith(g, S_branch) # {}
    /\ g[Largest(LinesWith(g, S_branch))] # S_branch

\* the (path, branch) pair the lines of a complete stanza g give
PairOfStanza(g) ==
    [path |-> PathOf(SubSeq(g[Largest(LinesWith(g, S_worktree))], Len(S_worktree) + 1,
                            Len(g[Largest(LinesWith(g, S_worktree))]))),
     branch |-> SubSeq(g[Largest(LinesWith(g, S_branch))], Len(S_branch) + 1,
                       Len(g[Largest(LinesWith(g, S_branch))]))]

\* the pairs of the complete stanzas of ls, in their order
PairsOfStanzas(ls) ==
    LET full == SelectSeq(StanzasOf(ls), Complete) IN
    [i \in 1..Len(full) |-> PairOfStanza(full[i])]

\* the pairs of the records of a listing, in their order
PairSeq(listed) == [i \in 1..Len(listed) |-> Pair(listed[i])]

\* the text of the printed lines, no newline after the last
PrintedText == Join(printed, NL)

\* ------------------------------------------------------------------------
\* C11: parsing a listing text gives the same records whether or not a
\* newline or a blank line follows its last line, and a last stanza that
\* has a worktree line and a branch line gives the last record.
\* ------------------------------------------------------------------------
C11_TrailingBlankLineOptional ==
    LET repo == get_repo_name(worktrees, procCwd)
        bare == ParseListing(PrintedText, repo)
        stanzas == StanzasOf(printed)
    IN  /\ last = NoCall =>
             \A t \in Trailers : ParseListing(PrintedText \o t, repo) = bare
        /\ Returned("parse") => last.listed = bare
        /\ last = NoCall /\ Complete(stanzas[Len(stanzas)]) =>
             /\ bare # <<>>
             /\ Pair(bare[Len(bare)]) = PairOfStanza(stanzas[Len(stanzas)])

\* a text whose last line is a branch line, with nothing after it, has been
\* parsed and its last stanza gave a record
C11_Witness ==
    /\ Returned("parse")
    /\ last.arg = << <<>> >>
    /\ printed # <<>>
    /\ StartsWith(printed[Len(printed)], S_branch)
    /\ Len(last.listed) = 1
    /\ Pair(last.listed[1]) = PairOfStanza(StanzasOf(printed)[Len(StanzasOf(printed))])

\* ------------------------------------------------------------------------
\* C18: the parser returns, in order, one record for each stanza that has a
\* worktree line and a branch line, with the path and the branch of that
\* stanza; a stanza lacking either gives no record and leaves the records of
\* the other stanzas as they are, and the call returns.
\* ------------------------------------------------------------------------
C18_StanzaIsolation ==
    Returned("parse") =>
        /\ PairSeq(last.listed) = PairsOfStanzas(printed)
        /\ \A i \in 1..Len(last.listed) :
              last.listed[i].is_main
                 = (Name(last.listed[i].path) = get_repo_name(worktrees, last.cwd))

\* a stanza with a worktree line and no branch line, then a stanza with a
\* branch line and no worktree line, have been parsed
C18_Witness ==
    /\ Returned("parse")
    /\ Len(StanzasOf(printed)) >= 2
    /\ LinesWith(StanzasOf(printed)[1], S_worktree) # {}
    /\ LinesWith(StanzasOf(printed)[1], S_branch) = {}
    /\ LinesWith(StanzasOf(printed)[2], S_worktree) = {}
    /\ LinesWith(StanzasOf(printed)[2], S_branch) # {}
    /\ last.listed = <<>>

\* ------------------------------------------------------------------------
\* Vocabulary of the properties of concurrent calls
\* ------------------------------------------------------------------------
\* the commands in cmds, as a set
CmdSet(cmds) == {cmds[i] : i \in 1..Len(cmds)}

\* how often cmd occurs in cmds
CountCmd(cmds, cmd) == Cardinality({i \in 1..Len(cmds) : cmds[i] = cmd})

\* caller c takes a step of get_finish_worktree_info
FinishStep(c) ==
    \/ \E i \in 1..Len(worktrees) : FinishMatch(c, <<worktrees[i].path>>, procCwd)
    \/ FinishMain(c)

\* the call of caller c, an op, has returned
DoneWith(c, op) == calls[c].op = op /\ calls[c].pc = "done"

\* ------------------------------------------------------------------------
\* C12: no step of get_finish_worktree_info, in a call that succeeds or
\* fails, changes the worktree registry, the branches, the branch checked
\* out in a worktree or the directories on disk, and the commands the call
\* issues are rev-parse and worktree list only.
\* ------------------------------------------------------------------------
C12_FinishChangesNothing ==
    [][\A c \in Callers :
          FinishStep(c)
          => /\ worktrees' = worktrees
             /\ branches' = branches
             /\ dirs' = dirs
             /\ procCwd' = procCwd
             /\ CmdSet(calls'[c].cmds) \subseteq {"rev-parse", "worktree list"}]_vars

\* a get_finish_worktree_info call has gone through both of its steps and
\* returned a FinishInfo
C12_Witness ==
    \E c \in Callers :
        /\ DoneWith(c, "finish")
        /\ calls[c].res.ok
        /\ calls[c].current # <<>>
        /\ CountCmd(calls[c].cmds, "worktree list") > 0

\* ------------------------------------------------------------------------
\* C13 (as claimed): start_worktree and get_finish_worktree_info return a
\* result to their caller also when a git subprocess exits nonzero; no
\* CalledProcessError leaves the operation.
\* ------------------------------------------------------------------------
C13_FailuresReturned ==
    last.op \in {"start", "finish"} /\ ~GitOk(worktrees, last.cwd)
    => /\ ~last.res.raised
       /\ ~last.res.ok

\* ------------------------------------------------------------------------
\* C14 (as claimed): the directory a successful start_worktree(feature_name)
\* with a non-empty name makes has a last component other than the
\* repository name, and no listing classifies its record main.
\* ------------------------------------------------------------------------
C14_TargetNeverNamedLikeRepo ==
    Returned("start") /\ last.res.ok /\ last.arg[1] # <<>>
    => LET fresh == list_worktrees(worktrees, last.cwd) IN
       /\ Name(last.res.payload[1]) # get_repo_name(worktrees, last.cwd)
       /\ \A i \in 1..Len(fresh) :
             fresh[i].path = last.res.payload[1] => ~fresh[i].is_main

\* ------------------------------------------------------------------------
\* C15 (as claimed): from whichever worktree start_worktree(f) is called,
\* the directory it checks and creates is "{repo_name}-{f}" in the parent
\* directory of the main checkout, repo_name being the name of the main
\* checkout, and the process stays in its directory.
\* ------------------------------------------------------------------------
C15_TargetBesideMain ==
    Returned("start") /\ last.res.msg \in {MsgCreated, MsgDirExists}
    => /\ last.res.detail = Div(Parent(MainPath), Name(MainPath) \o <<"-">> \o last.arg[1])
       /\ procCwd = last.cwd

\* ------------------------------------------------------------------------
\* C16: when a start_worktree call that has passed the pre-flight check
\* issues the add after another call has created a worktree for the same
\* feature name, it returns the git-error failure and the registry and the
\* branches stay as the other call left them; two calls for one name are
\* never both returned as successes.
\* ------------------------------------------------------------------------
C16_RaceHasOneWinner ==
    [][/\ \A c \in Callers :
             StartAdd(c) /\ (\E w \in created : w.feature = calls[c].arg[1])
             => /\ ~calls'[c].res.ok
                /\ calls'[c].res.msg = MsgGitError
                /\ calls'[c].res.payload = <<>>
                /\ worktrees' = worktrees
                /\ branches' = branches
                /\ created' = created
       /\ \A c, d \in Callers :
             /\ c # d
             /\ calls'[c].op = "start" /\ calls'[c].pc = "done"
             /\ calls'[d].op = "start" /\ calls'[d].pc = "done"
             /\ calls'[c].arg = calls'[d].arg
             => ~(calls'[c].res.ok /\ calls'[d].res.ok)]_vars

\* two calls for one feature name computed the same target and both passed
\* the pre-flight check; one created the worktree, the other was refused
\* by git
C16_Witness ==
    \E c, d \in Callers :
        /\ c # d
        /\ DoneWith(c, "start") /\ DoneWith(d, "start")
        /\ calls[c].arg = calls[d].arg
        /\ calls[c].target = calls[d].target
        /\ calls[c].res.ok
        /\ calls[d].res.msg = MsgGitError
        /\ "worktree add" \in CmdSet(calls[d].cmds)
        /\ \E i \in 1..Len(worktrees) :
              worktrees[i].path = calls[c].target /\ worktrees[i].branch = calls[c].arg[1]

\* ------------------------------------------------------------------------
\* C17 (as claimed): a get_finish_worktree_info call that returns a
\* FinishInfo has issued one worktree-listing command, and the feature
\* record and the main record of the FinishInfo are records of that listing.
\* ------------------------------------------------------------------------
C17_OneSnapshot ==
    \A c \in Callers :
        DoneWith(c, "finish") /\ calls[c].res.ok
        => /\ CountCmd(calls[c].cmds, "worktree list") = 1
           /\ \E i, j \in 1..Len(calls[c].listed) :
                 /\ calls[c].listed[i].path = calls[c].res.payload[1].worktree_dir
                 /\ calls[c].listed[i].branch = calls[c].res.payload[1].branch_name
                 /\ calls[c].listed[j].is_main
                 /\ calls[c].listed[j].path = calls[c].res.payload[1].main_dir
                 /\ calls[c].listed[j].branch = calls[c].res.payload[1].base_branch

\* ------------------------------------------------------------------------
\* C19: when the target directory exists at the pre-flight check,
\* start_worktree returns the directory-exists failure, the call issues no
\* worktree-add command, and the registry, the branches and the directories
\* stay as they are.
\* ------------------------------------------------------------------------
C19_ExistingTargetRefused ==
    [][\A c \in Callers :
          StartCheck(c) /\ Exists(worktrees, dirs, calls[c].target)
          => /\ calls'[c].pc = "done"
             /\ calls'[c].res = Result(FALSE, MsgDirExists, calls[c].target, <<>>)
             /\ "worktree add" \notin CmdSet(calls'[c].cmds)
             /\ worktrees' = worktrees
             /\ branches' = branches
             /\ dirs' = dirs
             /\ created' = created]_vars

\* a call whose target is the directory of an existing worktree has returned
\* the directory-exists failure
C19_Witness ==
    \E c \in Callers :
        /\ DoneWith(c, "start")
        /\ calls[c].res.msg = MsgDirExists
        /\ \E i \in 1..Len(worktrees) : worktrees[i].path = calls[c].target

\* ------------------------------------------------------------------------
\* C20: when the listing has no record classified main, start_worktree
\* takes the parent of the process's current directory as the parent
\* directory: it returns the directory-exists failure when
\* parent/"{repo_name}-{feature_name}" exists, and otherwise what the
\* worktree-add command for that directory gives.
\* ------------------------------------------------------------------------
C20_FallsBackToParentOfCwd ==
    [][\A f \in FeatureNames :
          /\ StartCall(f)
          /\ GitOk(worktrees, procCwd)
          /\ NumMain(list_worktrees(worktrees, procCwd)) = 0
          => LET target == Div(Parent(procCwd), get_repo_name(worktrees, procCwd) \o <<"-">> \o f)
                 run == GitWorktreeAdd(worktrees, branches, dirs, f, target)
             IN  IF Exists(worktrees, dirs, target)
                 THEN /\ last'.res = Result(FALSE, MsgDirExists, target, <<>>)
                      /\ worktrees' = worktrees
                 ELSE IF run.rc = 0
                 THEN /\ last'.res = Result(TRUE, MsgCreated, target, <<target>>)
                      /\ worktrees' = run.worktrees
                      /\ branches' = run.branches
                 ELSE /\ last'.res = Result(FALSE, MsgGitError, run.stderr, <<>>)
                      /\ worktrees' = worktrees]_vars

\* from a worktree outside the parent directory of the main checkout, with
\* no record classified main, start_worktree has created the new worktree
\* next to the process's directory
C20_Witness ==
    /\ Returned("start")
    /\ NumMain(last.listed) = 0
    /\ last.res.msg = MsgCreated
    /\ Parent(last.res.detail) = Parent(last.cwd)
    /\ Parent(last.cwd) # Parent(MainPath)

\* ------------------------------------------------------------------------
\* Vocabulary of the properties of creations side by side
\* ------------------------------------------------------------------------
\* the name of caller c's start_worktree call was created by no other call
OwnName(c) ==
    calls[c].res.ok \/ ~(\E w \in created : w.feature = calls[c].arg[1])

\* callers c and d have both returned from start_worktree calls for
\* different names, and no other call has created a worktree
TwoCreationsReturned(c, d) ==
    /\ c # d
    /\ DoneWith(c, "start") /\ DoneWith(d, "start")
    /\ calls[c].arg # calls[d].arg
    /\ OwnName(c) /\ OwnName(d)
    /\ \A w \in created : w.feature \in {calls[c].arg[1], calls[d].arg[1]}

\* both calls succeeded with different targets, and a fresh listing has one
\* record for each of the two branches, at the target of its call
BothCreated(c, d) ==
    LET fresh == list_worktrees(worktrees, procCwd) IN
    /\ calls[c].res.ok /\ calls[d].res.ok
    /\ calls[c].res.payload # calls[d].res.payload
    /\ \A e \in {c, d} :
          /\ Cardinality({i \in 1..Len(fresh) : fresh[i].branch = calls[e].arg[1]}) = 1
          /\ \E i \in 1..Len(fresh) :
                fresh[i].branch = calls[e].arg[1] /\ fresh[i].path = calls[e].res.payload[1]

\* the listing a list_worktrees step of caller c returns is the registry the
\* step found (which is the registry it leaves): the (path, branch) pairs
\* of the worktrees with a branch, in registry order
ListedIsRegistry(c) ==
    ListStep(c) =>
        /\ worktrees' = worktrees
        /\ PairSeq(calls'[c].listed) = PairSeq(WithBranch(worktrees))

\* ------------------------------------------------------------------------
\* C21 (as claimed): two start_worktree calls for different unused feature
\* names, interleaved in any order, both return success with different
\* targets and a later listing has one record for each branch; a listing
\* made meanwhile is the registry before or after a creation.
\* ------------------------------------------------------------------------
C21_BothNamesCreated ==
    [][/\ \A c, d \in Callers : TwoCreationsReturned(c, d) => BothCreated(c, d)
       /\ \A c \in Callers : ListedIsRegistry(c)]_vars

\* C21 (amended): the same for two names of which neither continues the
\* other after a "/" (git cannot hold the branches x and x/r together, and
\* the directory of x/r lies in the directory of x).
C21_UnrelatedNamesCreated ==
    [][/\ \A c, d \in Callers :
             /\ TwoCreationsReturned(c, d)
             /\ ~IsPathPrefix(calls[c].arg[1], calls[d].arg[1])
             /\ ~IsPathPrefix(calls[d].arg[1], calls[c].arg[1])
             => BothCreated(c, d)
       /\ \A c \in Callers : ListedIsRegistry(c)]_vars

\* both calls read the listing before either created its worktree, and both
\* have returned success
C21_Witness ==
    \E c, d \in Callers :
        /\ TwoCreationsReturned(c, d)
        /\ Len(calls[c].listed) = 1
        /\ Len(calls[d].listed) = 1
        /\ calls[c].res.ok /\ calls[d].res.ok
        /\ Len(worktrees) = 3

\* ------------------------------------------------------------------------
\* C22 (as claimed): in every FinishInfo get_finish_worktree_info returns,
\* branch_name differs from base_branch and worktree_dir differs from
\* main_dir, also when another process detaches, switches or removes
\* worktrees between the steps of the call (git itself never has one branch
\* checked out in two worktrees).
\* ------------------------------------------------------------------------
C22_FeatureDiffersFromMain ==
    \A c \in Callers :
        DoneWith(c, "finish") /\ calls[c].res.ok
        => /\ calls[c].res.payload[1].branch_name # calls[c].res.payload[1].base_branch
           /\ calls[c].res.payload[1].worktree_dir # calls[c].res.payload[1].main_dir

\* ------------------------------------------------------------------------
\* C23: a get_finish_worktree_info that returns success was made with a
\* directory whose symlink-resolved path equals the resolved path of a
\* record of its listing that is not marked main; made with a directory
\* strictly inside a linked worktree, it returns the
\* not-in-a-feature-worktree failure.
\* ------------------------------------------------------------------------
\* directory d lies strictly inside a linked worktree of the registry
StrictlyInsideLinked(wts, d) ==
    \E i \in 2..Len(wts) : IsPathPrefix(wts[i].path, d) /\ PathOf(wts[i].path) # d

C23_SuccessOnlyAtFeatureRoot ==
    Returned("finish")
    => /\ last.res.ok
          => \E i \in 1..Len(last.listed) :
                /\ Resolve(last.listed[i].path) = TargetOf(last.cwd, last.arg)
                /\ ~last.listed[i].is_main
       /\ StrictlyInsideLinked(worktrees, TargetOf(last.cwd, last.arg))
          => last.res = Result(FALSE, MsgNotInFeature, <<>>, <<>>)

\* the call was made with a symbolic link to a feature worktree and
\* returned success
C23_Witness ==
    /\ Returned("finish")
    /\ last.arg = <<LinkPath>>
    /\ last.arg[1] # TargetOf(last.cwd, last.arg)
    /\ last.res.ok
    /\ last.res.payload[1].worktree_dir = LinkTarget

\* ------------------------------------------------------------------------
\* Prompts
\* ------------------------------------------------------------------------
\* what wait() of a WorktreePrompt or a SelectionPrompt returns, or has
\* returned
Returns(self) == IF self.waited THEN self.returned ELSE self.result_value

\* what wait() of a QuestionPrompt returns, or the dict it has returned
ReturnsAnswers(self) == IF self.waited THEN self.returned ELSE self.answers

\* ------------------------------------------------------------------------
\* C24 (as claimed): once a prompt is resolved, no later key event or
\* cancel() changes what its wait() returns, before or after wait() has
\* seen the resolution.
\* ------------------------------------------------------------------------
C24_FirstResolutionFixesValue ==
    [][/\ worktreePrompt.result_event
          => Returns(worktreePrompt') = Returns(worktreePrompt)
       /\ selectionPrompt.result_event
          => Returns(selectionPrompt') = Returns(selectionPrompt)
       /\ questionPrompt.result_event
          => ReturnsAnswers(questionPrompt') = ReturnsAnswers(questionPrompt)]_vars

\* ------------------------------------------------------------------------
\* C25: after any sequence of key events selected_idx is an index of a
\* selectable option: a listed worktree or "new" for a WorktreePrompt, an
\* option for a SelectionPrompt that has options, an option of the current
\* question or "Other" for a QuestionPrompt.
\* ------------------------------------------------------------------------
C25_SelectedIdxInRange ==
    /\ 0 <= worktreePrompt.selected_idx
    /\ worktreePrompt.selected_idx < Len(worktreePrompt.worktrees) + 1
    /\ selectionPrompt.options # <<>>
       => /\ 0 <= selectionPrompt.selected_idx
          /\ selectionPrompt.selected_idx < Len(selectionPrompt.options)
    /\ 0 <= questionPrompt.selected_idx
    /\ questionPrompt.selected_idx < Len(CurrentOptions(questionPrompt)) + 1

\* the third option of the first question was chosen and the prompt has
\* advanced to a question with a single option
C25_Witness ==
    /\ focused = "question"
    /\ questionPrompt.questions = <<Q1, Q2>>
    /\ questionPrompt.current_q = 1
    /\ <<"q1", <<"C">> >> \in questionPrompt.answers
    /\ questionPrompt.selected_idx = 0

\* ------------------------------------------------------------------------
\* C26: a WorktreePrompt resolves only to ("new", name) with name not empty
\* and without whitespace at either end, to ("switch", path) with the path
\* of a worktree it was built with, or to None; None comes only from Escape
\* outside new-name mode; Escape, or Enter on a text that is empty once
\* stripped, in new-name mode does not resolve the prompt and clears the
\* typed text.
\* ------------------------------------------------------------------------
\* the results a WorktreePrompt may resolve to
AllowedResult(self, r) ==
    \/ r = None
    \/ /\ r.action = "new"
       /\ r.value # <<>>
       /\ ~IsSpace(r.value[1])
       /\ ~IsSpace(r.value[Len(r.value)])
    \/ /\ r.action = "switch"
       /\ \E i \in 1..Len(self.worktrees) : self.worktrees[i][1] = r.value

C26_WorktreeResults ==
    /\ worktreePrompt.result_event
       => AllowedResult(worktreePrompt, worktreePrompt.result_value)
    /\ \A e \in KeyEvents :
          LET after == WorktreePrompt_on_key(worktreePrompt, e) IN
          /\ /\ ~worktreePrompt.result_event
             /\ after.result_event
             /\ after.result_value = None
             => e.key = "escape" /\ ~worktreePrompt.in_new_mode
          /\ /\ worktreePrompt.in_new_mode
             /\ \/ e.key = "escape"
                \/ e.key = "enter" /\ Strip(worktreePrompt.new_text) = <<>>
             => /\ after.result_event = worktreePrompt.result_event
                /\ after.result_value = worktreePrompt.result_value
                /\ after.new_text = <<>>

\* Enter in new-name mode on a text that ends with a space has resolved the
\* prompt to the name without the space
C26_Witness ==
    /\ focused = "worktree"
    /\ worktreePrompt.result_event
    /\ worktreePrompt.new_text = <<"a", " ">>
    /\ worktreePrompt.result_value = Action("new", <<"a">>)

\* ------------------------------------------------------------------------
\* Scrollbar
\* ------------------------------------------------------------------------
\* ------------------------------------------------------------------------
\* C27 (as claimed): the scrollbar is visible from a scroll event until
\* HIDE_DELAY seconds after the most recent scroll event.
\* ------------------------------------------------------------------------
C27_VisibleUntilDelayAfterLastScroll ==
    scrollbar.lastScroll # <<>> /\ now < scrollbar.lastScroll[1] + HIDE_DELAY
    => scrollbar.visible

====
